---- MODULE Spec2Model ----
(***************************************************************************)
(* The interview session store (src/src/stores/interviewStore.ts) and the  *)
(* React components that drive it: InterviewSession, SessionTimer,         *)
(* SessionProgress, SessionHistory and the tabbed Index page.              *)
(*                                                                         *)
(* Time is counted in whole seconds.  A value that is absent in the        *)
(* program (null, undefined) is an empty sequence or an empty set, so that *)
(* every variable keeps one type: currentSession is <<>> or <<session>>,   *)
(* endTime is {} or {t}.                                                   *)
(***************************************************************************)
EXTENDS Integers, Sequences, FiniteSets, TLC

\* ---------------------------------------------------------------- bounds
MaxTime == 1          \* the wall clock runs over 0..MaxTime
MaxDuration == 1      \* the maxDuration prop given to SessionTimer, in seconds
MaxQuestions == 2     \* longest question list a session is started with
MaxResponses == 2     \* Response identifiers in use at one time
MaxTimers == 1        \* pending setTimeout(nextQuestion, 500) callbacks
MaxSessions == 2      \* Session identifiers in use at one time
MaxCatalog == 2       \* longest question array given to filterQuestions / selectQuestions

QuestionIds == 1..MaxQuestions
\* A question list: the questions 1..n in catalog order (n = 0 is the empty list).
QuestionLists == {[i \in 1..n |-> i] : n \in 0..MaxQuestions}
\* Texts the user may have in the response input; Contents are the trimmed ones.
Drafts == {"", " ", "A", "B "}
Contents == {"A", "B"}
\* setCurrentQuestion(index) is called with any integer of this range.
Indexes == -1..MaxQuestions

VARIABLES
  currentSession,   \* store: <<>> (null) or <<session>>
  isLoading,        \* store
  error,            \* store: <<>> (null) or <<message>>
  now,              \* the wall clock, new Date()
  activeTab,        \* Index: "setup", "session" or "history"
  currentResponse,  \* InterviewSession: text of the response input
  advanceTimers,    \* pending setTimeout(nextQuestion, 500) callbacks
  currentTime,      \* SessionTimer: the clock as sampled by the last tick
  sessions,         \* SessionHistory: the sessions state
  stored,           \* localStorage['interview-sessions-history']
  last,             \* the completeSession() calls of the last event: <<>> when
                    \* it made none, else <<[by, from, calls, auto]>>: the event,
                    \* the status it found, the number of calls, and whether
                    \* SessionTimer's auto-complete effect made them
  replaced,         \* the last event's save-to-history effect found an entry
                    \* with the session's identifier and other data, and
                    \* replaced it
  restored,         \* <<>>, or <<outcome>> when the last event was a reload of
                    \* the page: what the store and SessionHistory start from
  catalog,          \* the question array a caller holds (QUESTION_BANK, or the
                    \* candidates it passes on)
  filters,          \* the QuestionFilters a caller holds (currentFilters)
  config,           \* QuestionSelector: [questionCount, randomize]
  returned,         \* <<>>, or <<outcome>> of the last call of filterQuestions
                    \* or selectQuestions
  toast,            \* <<>>, or <<kind>> of the toast the last event showed
  sessionsRef,      \* SessionHistory: which array the sessions state holds; an
                    \* array just built is never the one held before
  effectDeps        \* SessionHistory: <<>>, or <<dependencies>> that the
                    \* save effect last ran with

vars == <<currentSession, isLoading, error, now, activeTab, currentResponse,
          advanceTimers, currentTime, sessions, stored, last, replaced, restored,
          catalog, filters, config, returned, toast, sessionsRef, effectDeps>>

\* The question bank and its selector: left alone by the store and the session views.
bankVars == <<catalog, filters, config, returned, toast>>

\* The save effect of SessionHistory taken run by run: left alone where the
\* effect is followed to its settled value within the event that causes it.
effectVars == <<sessionsRef, effectDeps>>

\* ------------------------------------------------------------- the store
NoSession == <<>>

\* String.prototype.trim on the texts of Drafts.
Trim(s) == CASE s = " " -> "" [] s = "B " -> "B" [] OTHER -> s

\* crypto.randomUUID(): an identifier that is in use nowhere.
FreshId(used) == CHOOSE i \in 1..(Cardinality(used) + 1) :
                   i \notin used /\ \A j \in 1..(i - 1) : j \in used

\* startNewSession that leaves the new session in the placeholder status.
startNewSession_NotStarted(questions, id, t) ==
  << [id |-> id, startTime |-> t, endTime |-> {}, currentQuestionIndex |-> 0,
      questions |-> questions, responses |-> <<>>, status |-> "not-started"] >>

startNewSession(questions, id, t) ==
  << [id |-> id, startTime |-> t, endTime |-> {}, currentQuestionIndex |-> 0,
      questions |-> questions, responses |-> <<>>, status |-> "in-progress"] >>

\* pauseSession that checks only that the session is not paused yet.
pauseSession_NotPaused(cs) ==
  IF cs # NoSession /\ cs[1].status # "paused"
  THEN << [cs[1] EXCEPT !.status = "paused"] >>
  ELSE cs

pauseSession(cs) ==
  IF cs # NoSession /\ cs[1].status = "in-progress"
  THEN << [cs[1] EXCEPT !.status = "paused"] >>
  ELSE cs

\* resumeSession without its status check.
resumeSession_AnyStatus(cs) ==
  IF cs # NoSession THEN << [cs[1] EXCEPT !.status = "in-progress"] >> ELSE cs

resumeSession(cs) ==
  IF cs # NoSession /\ cs[1].status = "paused"
  THEN << [cs[1] EXCEPT !.status = "in-progress"] >>
  ELSE cs

\* completeSession that forgets endTime.
completeSession_NoEndTime(cs, t) ==
  IF cs # NoSession THEN << [cs[1] EXCEPT !.status = "completed"] >> ELSE cs

\* completeSession that stamps startTime along with endTime.
completeSession_Restamp(cs, t) ==
  IF cs # NoSession
  THEN << [cs[1] EXCEPT !.startTime = t, !.endTime = {t}, !.status = "completed"] >>
  ELSE cs

completeSession(cs, t) ==
  IF cs # NoSession
  THEN << [cs[1] EXCEPT !.endTime = {t}, !.status = "completed"] >>
  ELSE cs

\* addResponse that opens a session for the response when there is none.
addResponse_AutoStart(cs, questionId, content, id, t) ==
  IF cs = NoSession
  THEN << [id |-> id, startTime |-> t, endTime |-> {}, currentQuestionIndex |-> 0,
           questions |-> <<>>, status |-> "in-progress",
           responses |-> << [id |-> id, timestamp |-> t, questionId |-> questionId,
                             content |-> content] >>] >>
  ELSE << [cs[1] EXCEPT !.responses =
             Append(@, [id |-> id, timestamp |-> t, questionId |-> questionId,
                        content |-> content])] >>

\* responseData = {questionId, content, duration}; id and timestamp are generated.
\* The duration of a response (and responseStartTime, which it is computed
\* from) is carried along by the program and read nowhere: it is left out.
addResponse(cs, questionId, content, id, t) ==
  IF cs = NoSession THEN cs
  ELSE << [cs[1] EXCEPT !.responses =
             Append(@, [id |-> id, timestamp |-> t, questionId |-> questionId,
                        content |-> content])] >>

\* nextQuestion without its bounds check.
nextQuestion_NoBound(cs) ==
  IF cs = NoSession THEN cs
  ELSE << [cs[1] EXCEPT !.currentQuestionIndex = @ + 1] >>

nextQuestion(cs) ==
  IF cs = NoSession THEN cs
  ELSE LET nextIndex == cs[1].currentQuestionIndex + 1 IN
       IF nextIndex < Len(cs[1].questions)
       THEN << [cs[1] EXCEPT !.currentQuestionIndex = nextIndex] >>
       ELSE cs

\* previousQuestion that wraps around from the first question to the last.
previousQuestion_Wrap(cs) ==
  IF cs = NoSession THEN cs
  ELSE LET prevIndex == cs[1].currentQuestionIndex - 1 IN
       IF prevIndex >= 0
       THEN << [cs[1] EXCEPT !.currentQuestionIndex = prevIndex] >>
       ELSE << [cs[1] EXCEPT !.currentQuestionIndex = Len(cs[1].questions) - 1] >>

previousQuestion(cs) ==
  IF cs = NoSession THEN cs
  ELSE LET prevIndex == cs[1].currentQuestionIndex - 1 IN
       IF prevIndex >= 0
       THEN << [cs[1] EXCEPT !.currentQuestionIndex = prevIndex] >>
       ELSE cs

setCurrentQuestion(cs, index) ==
  IF cs = NoSession \/ index < 0 \/ index >= Len(cs[1].questions) THEN cs
  ELSE << [cs[1] EXCEPT !.currentQuestionIndex = index] >>

\* clearSession that keeps a session which is not in progress.
clearSession_OnlyInProgress(cs) ==
  IF cs # NoSession /\ cs[1].status = "in-progress" THEN NoSession ELSE cs

clearSession(cs) == NoSession

\* --------------------------------------------------- the rendered page
\* The state an event handler or an effect works on.  cs is the store's
\* currentSession; completes counts the completeSession() calls of the event.
World ==
  [cs |-> currentSession, tab |-> activeTab, draft |-> currentResponse,
   timers |-> advanceTimers, ctime |-> currentTime,
   sessions |-> sessions, stored |-> stored, completes |-> 0, auto |-> FALSE,
   replaced |-> FALSE]

StatusOf(cs) == IF cs = NoSession THEN "none" ELSE cs[1].status

\* InterviewSession renders its children (QuestionDisplay, SessionTimer, ...)
\* when there is a session.  QuestionSelector starts sessions of one question
\* or more, so questions[currentQuestionIndex] is defined under the page.
Renders(cs) == cs # NoSession

\* A currentQuestion that gives the position in place of the question.
currentQuestion_Index(r) == r.cs[1].currentQuestionIndex

\* Values of one render of InterviewSession, as its handlers close over them.
currentQuestion(r) == r.cs[1].questions[r.cs[1].currentQuestionIndex + 1]
isLastQuestion(r) == r.cs[1].currentQuestionIndex = Len(r.cs[1].questions) - 1
isFirstQuestion(r) == r.cs[1].currentQuestionIndex = 0
hasResponse(r) == Trim(r.draft) # ""

ResponseIdsOf(s) == {s.responses[i].id : i \in 1..Len(s.responses)}
ResponseIds(w) ==
  UNION ({ResponseIdsOf(w.cs[i]) : i \in 1..Len(w.cs)}
         \cup {ResponseIdsOf(w.stored[i]) : i \in 1..Len(w.stored)})
SessionIds(w) ==
  {w.cs[i].id : i \in 1..Len(w.cs)} \cup {w.stored[i].id : i \in 1..Len(w.stored)}

\* Index (tabs): the callbacks given to InterviewSession and QuestionSelector.
\* handleSessionComplete that leaves the shown tab as it is.
handleSessionComplete_SameTab(w) == w

handleSessionComplete(w) == [w EXCEPT !.tab = "history"]
handleSessionExit(w) == [w EXCEPT !.tab = "setup"]

\* InterviewSession.  r is the render the handler closes over, w the state it
\* acts on: the store actions read the store's latest state through get().
handleResponseSubmit(r, w, t) ==
  IF ~hasResponse(r) THEN w
  ELSE [w EXCEPT
          !.cs = addResponse(@, currentQuestion(r), Trim(r.draft),
                             FreshId(ResponseIds(w)), t),
          !.timers = IF ~isLastQuestion(r) THEN @ + 1 ELSE @]

handleNextQuestion(r, w, t) ==
  IF hasResponse(r) THEN handleResponseSubmit(r, w, t)
  ELSE [w EXCEPT !.cs = nextQuestion(@)]

handleCompleteSession(r, w, t) ==
  LET w1 == IF hasResponse(r) THEN handleResponseSubmit(r, w, t) ELSE w
      w2 == [w1 EXCEPT !.cs = completeSession(@, t), !.completes = @ + 1]
  IN  handleSessionComplete(w2)

handleExit(r, w, t) ==
  LET w1 == IF r.cs[1].status = "in-progress" /\ hasResponse(r)
            THEN [w EXCEPT !.cs = addResponse(@, currentQuestion(r), Trim(r.draft),
                                              FreshId(ResponseIds(w)), t)]
            ELSE w
  IN  handleSessionExit(w1)

\* A sessionElapsed that stands still while the session is paused.
sessionElapsed_Frozen(r) ==
  IF r.cs[1].status = "paused" THEN 0 ELSE r.ctime - r.cs[1].startTime

\* SessionTimer; its onComplete prop is InterviewSession's handleCompleteSession.
sessionElapsed(r) == r.ctime - r.cs[1].startTime

handlePauseResume(r, w) ==
  IF r.cs[1].status = "in-progress" THEN [w EXCEPT !.cs = pauseSession(@)]
  ELSE IF r.cs[1].status = "paused" THEN [w EXCEPT !.cs = resumeSession(@)]
  ELSE w

handleStop(r, w, t) ==
  handleCompleteSession(r, [w EXCEPT !.cs = completeSession(@, t),
                                     !.completes = @ + 1], t)

\* The auto-complete effect of SessionTimer, run after the render r.
autoCompleteEffect(r, w, t) ==
  IF sessionElapsed(r) >= MaxDuration /\ r.cs[1].status = "in-progress"
  THEN handleCompleteSession(r, [w EXCEPT !.cs = completeSession(@, t),
                                          !.completes = @ + 1, !.auto = TRUE], t)
  ELSE w

\* The effect of InterviewSession that follows currentQuestionIndex.
RECURSIVE find(_, _)
find(responses, questionId) ==
  IF responses = <<>> THEN <<>>
  ELSE IF Head(responses).questionId = questionId THEN <<Head(responses)>>
  ELSE find(Tail(responses), questionId)

prefillEffect(w, t) ==
  IF w.cs = NoSession THEN w
  ELSE LET existingResponse == find(w.cs[1].responses, currentQuestion(w)) IN
       IF existingResponse # <<>>
       THEN [w EXCEPT !.draft = existingResponse[1].content]
       ELSE [w EXCEPT !.draft = ""]

\* SessionHistory.
RECURSIVE findIndex(_, _)
findIndex(list, id) ==
  IF list = <<>> THEN 0
  ELSE IF Head(list).id = id THEN 1
  ELSE LET k == findIndex(Tail(list), id) IN IF k = 0 THEN 0 ELSE k + 1

\* The save-to-history effect without the lookup of an existing entry.
saveToHistoryEffect_Prepend(w) ==
  IF w.cs # NoSession /\ w.cs[1].status = "completed"
  THEN LET updatedSessions == <<w.cs[1]>> \o w.sessions
       IN  [w EXCEPT !.sessions = updatedSessions, !.stored = updatedSessions]
  ELSE w

\* The save-to-history effect without its status check.
saveToHistoryEffect_AnyStatus(w) ==
  IF w.cs # NoSession
  THEN LET existingIndex == findIndex(w.sessions, w.cs[1].id)
           updatedSessions ==
             IF existingIndex >= 1
             THEN [w.sessions EXCEPT ![existingIndex] = w.cs[1]]
             ELSE <<w.cs[1]>> \o w.sessions
       IN  [w EXCEPT !.sessions = updatedSessions, !.stored = updatedSessions]
  ELSE w

\* The save-to-history effect; existingIndex of the code is findIndex - 1.
saveToHistoryEffect(w) ==
  IF w.cs # NoSession /\ w.cs[1].status = "completed"
  THEN LET existingIndex == findIndex(w.sessions, w.cs[1].id)
           updatedSessions ==
             IF existingIndex >= 1
             THEN [w.sessions EXCEPT ![existingIndex] = w.cs[1]]
             ELSE <<w.cs[1]>> \o w.sessions
       IN  [w EXCEPT !.sessions = updatedSessions, !.stored = updatedSessions,
                     !.replaced = existingIndex >= 1
                                  /\ w.sessions[existingIndex] # w.cs[1]]
  ELSE w

RECURSIVE filterOut(_, _)
filterOut(list, id) ==
  IF list = <<>> THEN <<>>
  ELSE IF Head(list).id # id THEN <<Head(list)>> \o filterOut(Tail(list), id)
  ELSE filterOut(Tail(list), id)

handleDeleteSession(w, sessionId) ==
  LET updatedSessions == filterOut(w.sessions, sessionId)
  IN  [w EXCEPT !.sessions = updatedSessions, !.stored = updatedSessions]

\* Index (tabs): the effect that follows currentSession and activeTab.
activeTabEffect(w) ==
  IF w.cs # NoSession /\ w.tab = "setup" THEN [w EXCEPT !.tab = "session"] ELSE w

\* ------------------------------------------------------------ one commit
idxOf(cs) == IF cs = NoSession THEN {} ELSE {cs[1].currentQuestionIndex}

\* Component state of an unmounted InterviewSession / SessionTimer.
Unmounted(w) == [w EXCEPT !.draft = "", !.ctime = 0]

\* The effects React runs after the event that took the page from pre to w, at
\* time t, before it handles the next event.  TabsContent mounts only the shown
\* tab: InterviewSession (with SessionTimer inside, once there is a session)
\* under "session", SessionHistory under "history"; a component that mounts
\* starts from its initial state and runs all its effects.  a is w after the
\* effect of Index.

\* The effects of InterviewSession and SessionTimer.
viewEffects(pre, w, a, t) ==
  LET viewUp == a.tab = "session"
      viewMounts == viewUp /\ (pre.tab # "session" \/ w.tab # "session")
      timerUp == viewUp /\ Renders(a.cs)
      timerMounts == timerUp /\ (viewMounts \/ ~Renders(pre.cs))
      \* the render whose values the effects of this commit close over
      r == [a EXCEPT !.draft = IF viewMounts THEN "" ELSE @,
                     !.ctime = IF timerMounts THEN t ELSE IF timerUp THEN @ ELSE 0]
  IN  IF ~viewUp THEN Unmounted(a)
      ELSE LET p == IF viewMounts \/ idxOf(pre.cs) # idxOf(a.cs)
                    THEN prefillEffect(r, t) ELSE r
               q == IF timerUp THEN autoCompleteEffect(r, p, t) ELSE p
           IN  IF q.tab = "session" THEN q ELSE Unmounted(q)

\* SessionHistory: its sessions state is read from localStorage when it mounts;
\* then its effect runs.
historyEffects(pre, v) ==
  IF v.tab = "history"
  THEN saveToHistoryEffect(IF pre.tab # "history" THEN [v EXCEPT !.sessions = v.stored]
                           ELSE v)
  ELSE [v EXCEPT !.sessions = <<>>]

\* The model's bounds on what grows without limit in the program.
Within(w) ==
  /\ w.timers <= MaxTimers
  /\ Cardinality(ResponseIds(w)) <= MaxResponses

Commit(op, w) ==
  /\ Within(w)
  /\ currentSession' = w.cs
  /\ activeTab' = w.tab
  /\ currentResponse' = w.draft
  /\ advanceTimers' = w.timers
  /\ currentTime' = w.ctime
  /\ sessions' = w.sessions
  /\ stored' = w.stored
  /\ last' = IF w.completes = 0 THEN <<>>
             ELSE << [by |-> op, from |-> StatusOf(currentSession),
                      calls |-> w.completes, auto |-> w.auto] >>
  /\ replaced' = w.replaced
  /\ restored' = <<>>
  /\ UNCHANGED bankVars
  /\ UNCHANGED effectVars

\* The page after an event at time t whose handler left it as w: the effects
\* run stage by stage and the outcome is committed.
Settle(op, w, t) ==
  \E handled \in {w} :
    \E a \in {activeTabEffect(handled)} :
      \E v \in {viewEffects(World, handled, a, t)} :
        \E h \in {historyEffects(World, v)} : Commit(op, h)

\* An event at the current time whose handler leaves the page as w.
Event(op, w) == Settle(op, w, now) /\ UNCHANGED now

\* A call of a store action with no page mounted: no effect follows it.
Call(op, w) == Commit(op, w) /\ UNCHANGED now

\* ------------------------------------------------------ the question bank
\* A string is the sequence of its characters; an optional field is <<>>
\* (undefined) or <<value>>.
Str(c) == << c >>
Space == " "

\* String.prototype.toLowerCase on the characters in use.
toLowerCase(str) ==
  [i \in 1..Len(str) |-> CASE str[i] = "A" -> "a" [] str[i] = "B" -> "b"
                           [] OTHER -> str[i]]

\* String.prototype.includes: term occurs in text as a substring.
includes(text, term) ==
  \E i \in 0..(Len(text) - Len(term)) : SubSeq(text, i + 1, i + Len(term)) = term

\* Array.prototype.join(' ') on an array of strings.
RECURSIVE join(_)
join(strs) ==
  IF strs = <<>> THEN <<>>
  ELSE IF Len(strs) = 1 THEN strs[1]
  ELSE strs[1] \o << Space >> \o join(Tail(strs))

\* Array.prototype.includes.
has(array, x) == \E i \in 1..Len(array) : array[i] = x

\* value || '' for an optional string: undefined and '' both give ''.
orEmpty(opt) == IF opt = <<>> THEN <<>> ELSE opt[1]

\* InterviewQuestion records the filter is exercised with: every optional
\* field occurs absent and present, estimatedTime also as 0.
InterviewQuestion(id, category, difficulty, estimatedTime, question, context, tags, requiresContext) ==
  [id |-> id, category |-> category, difficulty |-> difficulty,
   estimatedTime |-> estimatedTime, question |-> question, context |-> context,
   tags |-> tags, requiresContext |-> requiresContext]

Questions ==
  { InterviewQuestion(1, "product_strategy", "beginner", <<>>, Str("a"), <<>>,
                      <<>>, <<>>),
    InterviewQuestion(2, "behavioral", "expert", << 0 >>, Str("B"), << Str("a") >>,
                      << <<>> >>, << FALSE >>),
    InterviewQuestion(3, "product_strategy", "expert", << 5 >>, <<"a", "b">>,
                      << <<>> >>, << << Str("u") >> >>, << TRUE >>),
    InterviewQuestion(4, "behavioral", "beginner", << 10 >>, Str("b"), << Str("B") >>,
                      << << Str("u"), Str("x") >> >>, <<>>) }

\* Arrays of distinct questions, of MaxCatalog questions at most.
Catalogs ==
  { c \in UNION { [1..n -> Questions] : n \in 0..MaxCatalog } :
      \A i, j \in 1..Len(c) : i # j => c[i] # c[j] }

\* QuestionFilters values, every field optional.
QuestionFilters ==
  [categories : {<<>>, << <<>> >>, << <<"behavioral">> >>,
                 << <<"behavioral", "product_strategy">> >>},
   difficulties : {<<>>, << <<"expert">> >>},
   maxTime : {<<>>, << 0 >>, << 5 >>},
   searchText : {<<>>, << <<>> >>, << Str("A") >>, << <<"b", " ", "a">> >>},
   tags : {<<>>, << <<>> >>, << << Str("x"), Str("u") >> >>},
   includeContextRequired : {<<>>, << TRUE >>, << FALSE >>}]

NoFilters ==
  [categories |-> <<>>, difficulties |-> <<>>, maxTime |-> <<>>, searchText |-> <<>>,
   tags |-> <<>>, includeContextRequired |-> <<>>]

\* The truthiness of an optional number, string, array length or boolean.
truthyNumber(opt) == opt # <<>> /\ opt[1] # 0
truthyString(opt) == opt # <<>> /\ opt[1] # <<>>
truthyLength(opt) == opt # <<>> /\ Len(opt[1]) # 0
truthyBoolean(opt) == opt # <<>> /\ opt[1]

\* `${question.question} ${question.context || ''} ${question.tags?.join(' ') || ''}`
searchableText(q) ==
  toLowerCase(q.question \o << Space >> \o orEmpty(q.context) \o << Space >>
              \o (IF q.tags = <<>> THEN <<>> ELSE join(q.tags[1])))

\* The callback of questions.filter(...): TRUE when the question is kept.
keeps(f, q) ==
  IF truthyLength(f.categories) /\ ~has(f.categories[1], q.category) THEN FALSE
  ELSE IF truthyLength(f.difficulties) /\ ~has(f.difficulties[1], q.difficulty)
  THEN FALSE
  ELSE IF /\ truthyNumber(f.maxTime) /\ truthyNumber(q.estimatedTime)
          /\ q.estimatedTime[1] > f.maxTime[1]
  THEN FALSE
  ELSE IF /\ truthyString(f.searchText)
          /\ ~includes(searchableText(q), toLowerCase(f.searchText[1]))
  THEN FALSE
  ELSE IF /\ truthyLength(f.tags)
          /\ ~\E i \in 1..Len(f.tags[1]) :
                has(IF q.tags = <<>> THEN <<>> ELSE q.tags[1], f.tags[1][i])
  THEN FALSE
  ELSE IF f.includeContextRequired = << FALSE >> /\ truthyBoolean(q.requiresContext)
  THEN FALSE
  ELSE TRUE

\* A filter that collects the kept elements last to first.
RECURSIVE filter_Reversed(_, _)
filter_Reversed(array, f) ==
  IF array = <<>> THEN <<>>
  ELSE filter_Reversed(Tail(array), f)
       \o (IF keeps(f, Head(array)) THEN << Head(array) >> ELSE <<>>)

\* Array.prototype.filter: a new array of the kept elements, in order.
RECURSIVE filter(_, _)
filter(array, f) ==
  IF array = <<>> THEN <<>>
  ELSE (IF keeps(f, Head(array)) THEN << Head(array) >> ELSE <<>>)
       \o filter(Tail(array), f)

\* A call's outcome: what it returns, and the argument array as the call
\* leaves it.
filterQuestions(questions, f) ==
  [questions |-> questions, result |-> filter(questions, f)]

\* The values of a shuffle that draws j below i: Math.floor(Math.random() * i).
Randoms_BelowIndex(n) == { random \in [1..(n - 1) -> 0..(n - 1)] :
                             \A i \in 1..(n - 1) : random[i] < i }

\* The values Math.floor(Math.random() * (i + 1)) takes in one run of the
\* shuffle over n elements: random[i] in 0..i for each i of n-1 .. 1.
Randoms(n) == { random \in [1..(n - 1) -> 0..(n - 1)] :
                  \A i \in 1..(n - 1) : random[i] <= i }

\* [shuffled[i], shuffled[j]] = [shuffled[j], shuffled[i]], indexes from 0.
swap(shuffled, i, j) ==
  [shuffled EXCEPT ![i + 1] = shuffled[j + 1], ![j + 1] = shuffled[i + 1]]

\* The loop of shuffleArray from index i down to 1.
RECURSIVE shuffleFrom(_, _, _)
shuffleFrom(shuffled, i, random) ==
  IF i > 0 THEN shuffleFrom(swap(shuffled, i, random[i]), i - 1, random)
  ELSE shuffled

\* shuffleArray works on a copy; array is the argument as the call leaves it.
shuffleArray(array, random) ==
  [array |-> array, shuffled |-> shuffleFrom(array, Len(array) - 1, random)]

\* A slice that takes the element at index end as well.
slice_Inclusive(array, end) ==
  SubSeq(array, 1, IF end + 1 < Len(array) THEN end + 1 ELSE Len(array))

\* Array.prototype.slice(0, end).
slice(array, end) ==
  LET n == Len(array)
      to == IF end < 0 THEN (IF n + end > 0 THEN n + end ELSE 0)
            ELSE IF end < n THEN end ELSE n
  IN  SubSeq(array, 1, to)

\* selectQuestions that takes no copy: it shuffles its argument in place.
selectQuestions_InPlace(questions, cfg, random) ==
  LET order == IF cfg.randomize
               THEN shuffleFrom(questions, Len(questions) - 1, random)
               ELSE questions
  IN  [questions |-> order, order |-> order,
       result |-> slice(order, cfg.questionCount)]

\* QuestionBankConfig: questionCount, randomize and the optional filters.
\* order is availableQuestions as it stands when it is sliced.
selectQuestions(questions, cfg, random) ==
  LET availableQuestions ==
        IF cfg.filters # <<>> THEN filterQuestions(questions, cfg.filters[1]).result
        ELSE questions
      order == IF cfg.randomize THEN shuffleArray(availableQuestions, random).shuffled
               ELSE availableQuestions
  IN  [questions |-> questions, order |-> order,
       result |-> slice(order, cfg.questionCount)]

\* QuestionSelector's initial configuration: questionCount 5, randomize on.
DefaultConfig == [questionCount |-> 5, randomize |-> TRUE]

\* The question bank out of play: no array held, no call made.
BankIdle ==
  /\ catalog = <<>>
  /\ filters = NoFilters
  /\ config = DefaultConfig
  /\ returned = <<>>
  /\ toast = <<>>

EffectIdle ==
  /\ sessionsRef = 0
  /\ effectDeps = <<>>

\* --------------------------------------------------------------- actions
Init ==
  /\ currentSession = NoSession
  /\ isLoading = FALSE
  /\ error = <<>>
  /\ now = 0
  /\ activeTab = "setup"
  /\ currentResponse = ""
  /\ advanceTimers = 0
  /\ currentTime = 0
  /\ sessions = <<>>
  /\ stored = <<>>
  /\ last = <<>>
  /\ replaced = FALSE
  /\ restored = <<>>
  /\ BankIdle
  /\ EffectIdle

\* The store's actions, called directly.
StartNewSessionWith(questions) ==
  /\ Call("startNewSession",
          [World EXCEPT !.cs = startNewSession(questions,
                                               FreshId(SessionIds(World)), now)])
  /\ isLoading' = FALSE
  /\ error' = <<>>

StartNewSession == \E questions \in QuestionLists : StartNewSessionWith(questions)

PauseSession ==
  /\ Call("pauseSession", [World EXCEPT !.cs = pauseSession(@)])
  /\ UNCHANGED <<isLoading, error>>

ResumeSession ==
  /\ Call("resumeSession", [World EXCEPT !.cs = resumeSession(@)])
  /\ UNCHANGED <<isLoading, error>>

CompleteSession ==
  /\ Call("completeSession",
          [World EXCEPT !.cs = completeSession(@, now), !.completes = 1])
  /\ UNCHANGED <<isLoading, error>>

AddResponse ==
  \E questionId \in QuestionIds, content \in Contents :
    /\ Call("addResponse",
            [World EXCEPT !.cs = addResponse(@, questionId, content,
                                             FreshId(ResponseIds(World)), now)])
    /\ UNCHANGED <<isLoading, error>>

NextQuestion ==
  /\ Call("nextQuestion", [World EXCEPT !.cs = nextQuestion(@)])
  /\ UNCHANGED <<isLoading, error>>

PreviousQuestion ==
  /\ Call("previousQuestion", [World EXCEPT !.cs = previousQuestion(@)])
  /\ UNCHANGED <<isLoading, error>>

SetCurrentQuestionTo(index) ==
  /\ Call("setCurrentQuestion", [World EXCEPT !.cs = setCurrentQuestion(@, index)])
  /\ UNCHANGED <<isLoading, error>>

SetCurrentQuestion == \E index \in Indexes : SetCurrentQuestionTo(index)

ClearSession ==
  /\ Call("clearSession", [World EXCEPT !.cs = clearSession(@)])
  /\ isLoading' = FALSE
  /\ error' = <<>>

\* QuestionSelector, shown under the setup tab: handleCreateSession with the
\* questions selectQuestions returned (questionCount >= 1 of them).
HandleCreateSession ==
  \E questions \in QuestionLists \ {<<>>} :
    /\ activeTab = "setup"
    /\ Event("handleCreateSession",
             [World EXCEPT !.cs = startNewSession(questions,
                                                  FreshId(SessionIds(World)), now),
                           !.tab = "session"])
    /\ isLoading' = FALSE
    /\ error' = <<>>

\* InterviewSession, shown under the session tab.
InView == activeTab = "session" /\ Renders(currentSession)
Open == currentSession[1].status # "completed"

TypeResponse ==
  \E text \in Drafts :
    /\ InView /\ Open
    /\ Event("type", [World EXCEPT !.draft = text])
    /\ UNCHANGED <<isLoading, error>>

HandleResponseSubmit ==
  /\ InView /\ Open
  /\ Event("handleResponseSubmit", handleResponseSubmit(World, World, now))
  /\ UNCHANGED <<isLoading, error>>

HandleNextQuestion ==
  /\ InView /\ Open /\ ~isLastQuestion(World)
  /\ Event("handleNextQuestion", handleNextQuestion(World, World, now))
  /\ UNCHANGED <<isLoading, error>>

HandlePrevious ==
  /\ InView /\ Open /\ ~isFirstQuestion(World)
  /\ Event("previous", [World EXCEPT !.cs = previousQuestion(@)])
  /\ UNCHANGED <<isLoading, error>>

HandleCompleteSession ==
  /\ InView /\ Open /\ isLastQuestion(World)
  /\ Event("handleCompleteSession", handleCompleteSession(World, World, now))
  /\ UNCHANGED <<isLoading, error>>

HandleExit ==
  /\ InView
  /\ Event("handleExit", handleExit(World, World, now))
  /\ UNCHANGED <<isLoading, error>>

\* The delayed nextQuestion() of handleResponseSubmit fires.
AutoAdvance ==
  /\ advanceTimers > 0
  /\ Event("autoAdvance", [World EXCEPT !.timers = @ - 1, !.cs = nextQuestion(@)])
  /\ UNCHANGED <<isLoading, error>>

\* SessionProgress: the question grid.
JumpToQuestion ==
  \E index \in 0..(MaxQuestions - 1) :
    /\ InView /\ Open /\ index < Len(currentSession[1].questions)
    /\ Event("jump", [World EXCEPT !.cs = setCurrentQuestion(@, index)])
    /\ UNCHANGED <<isLoading, error>>

\* SessionTimer.
HandlePauseResume ==
  /\ InView /\ Open
  /\ Event("handlePauseResume", handlePauseResume(World, World))
  /\ UNCHANGED <<isLoading, error>>

HandleStop ==
  /\ InView /\ Open
  /\ Event("handleStop", handleStop(World, World, now))
  /\ UNCHANGED <<isLoading, error>>

\* The clock counts the seconds since the first session was started.
Started == currentSession # NoSession \/ now > 0

\* A second passes; the interval of a mounted SessionTimer samples the clock.
Tick ==
  /\ Started /\ now < MaxTime
  /\ now' = now + 1
  /\ Settle("tick", [World EXCEPT !.ctime = IF InView THEN now + 1 ELSE @], now + 1)
  /\ UNCHANGED <<isLoading, error>>

\* A second passes with no page mounted.
TimePasses ==
  /\ Started /\ now < MaxTime
  /\ now' = now + 1
  /\ Commit("timePasses", World)
  /\ UNCHANGED <<isLoading, error>>

\* SessionHistory, shown under the history tab.
HandleDeleteSessionOf(sessionId) ==
  /\ activeTab = "history"
  /\ Event("handleDeleteSession", handleDeleteSession(World, sessionId))
  /\ UNCHANGED <<isLoading, error>>

\* The Delete item of the menu of a listed session.
HandleDeleteSession ==
  \E i \in 1..Len(sessions) : HandleDeleteSessionOf(sessions[i].id)

\* Index: the tab triggers and the History button of the header.
SelectTab ==
  \E tab \in {"setup", "session", "history"} :
    /\ tab = "session" => currentSession # NoSession
    /\ tab # activeTab
    /\ Event("selectTab", [World EXCEPT !.tab = tab])
    /\ UNCHANGED <<isLoading, error>>

\* The store under any sequence of calls of its actions.
Next ==
  \/ StartNewSession \/ PauseSession \/ ResumeSession \/ CompleteSession
  \/ AddResponse \/ NextQuestion \/ PreviousQuestion \/ SetCurrentQuestion
  \/ ClearSession \/ TimePasses

Spec == Init /\ [][Next]_vars

\* The store under the tabbed Index page, whose handlers and effects are then
\* its only callers.
PageNext ==
  \/ HandleCreateSession \/ TypeResponse \/ HandleResponseSubmit
  \/ HandleNextQuestion \/ HandlePrevious \/ HandleCompleteSession \/ HandleExit
  \/ AutoAdvance \/ JumpToQuestion \/ HandlePauseResume \/ HandleStop \/ Tick
  \/ HandleDeleteSession \/ SelectTab

PageSpec == Init /\ [][PageNext]_vars

\* The page with a clock that keeps running: the interval of SessionTimer fires
\* every second.
LivePageSpec == Init /\ [][PageNext]_vars /\ WF_vars(Tick)

\* setLoading and setError.
Errors == {<<>>, <<"E">>}

SetLoading ==
  \E loading \in BOOLEAN :
    /\ Call("setLoading", World)
    /\ isLoading' = loading
    /\ UNCHANGED error

SetError ==
  \E e \in Errors :
    /\ Call("setError", World)
    /\ error' = e
    /\ UNCHANGED isLoading

\* The whole store at one instant, its loading and error flags included.
FlagsNext ==
  \/ StartNewSession \/ PauseSession \/ ResumeSession \/ CompleteSession
  \/ AddResponse \/ NextQuestion \/ PreviousQuestion \/ SetCurrentQuestion
  \/ ClearSession \/ SetLoading \/ SetError

FlagsSpec == Init /\ [][FlagsNext]_vars

\* ------------------------------------------------------- persistence
\* A time value is a Date in memory and, in JSON text, the string toJSON gives.
Date(t) == [type |-> "Date", at |-> t]
toJSON(t) == [type |-> "string", at |-> t]

\* A session as the program holds it, its time values being Date objects.
InMemory(s) ==
  [s EXCEPT !.startTime = Date(@),
            !.endTime = {Date(t) : t \in @},
            !.responses = [i \in 1..Len(@) |-> [@[i] EXCEPT !.timestamp = Date(@)]]]

\* The value JSON.stringify writes for a session: every Date becomes a string,
\* an undefined endTime is left out.
StringifySession(s) ==
  [s EXCEPT !.startTime = toJSON(@),
            !.endTime = {toJSON(t) : t \in @},
            !.responses = [i \in 1..Len(@) |-> [@[i] EXCEPT !.timestamp = toJSON(@)]]]

\* What may have happened to localStorage between two loads of the page:
\* nothing, text that is no JSON under one of the two keys, or JSON whose
\* session object lacks fields.
Damages == {"none", "sessionText", "sessionFields", "historyText", "historyFields"}

\* The text under 'interview-session': <<"json", value>>, or <<"garbage">>.
SessionText(cs, damage) ==
  CASE damage = "sessionText" -> <<"garbage">>
    [] damage = "sessionFields" /\ cs # NoSession ->
         <<"json", << [id |-> cs[1].id, status |-> cs[1].status] >> >>
    [] OTHER -> <<"json", [i \in 1..Len(cs) |-> StringifySession(cs[i])]>>

\* The text under 'interview-sessions-history'.
HistoryText(list, damage) ==
  CASE damage = "historyText" -> <<"garbage">>
    [] damage = "historyFields" /\ list # <<>> ->
         <<"json", [i \in 1..Len(list) |-> [id |-> list[i].id, status |-> list[i].status]]>>
    [] OTHER -> <<"json", [i \in 1..Len(list) |-> StringifySession(list[i])]>>

\* JSON.parse, called with no reviver: the value the text holds, strings left
\* as strings; it throws on text that is no JSON.
JSONparse(text) ==
  IF text[1] = "json" THEN [threw |-> FALSE, value |-> text[2]]
  ELSE [threw |-> TRUE, value |-> <<>>]

\* The persist middleware restoring the store: a failure of getItem is caught
\* and leaves the initial state, currentSession: null.
rehydrate(text) ==
  LET parsed == JSONparse(text)
  IN  IF parsed.threw THEN NoSession ELSE parsed.value

\* The initializer of the sessions state of SessionHistory.
loadSessions(text) == JSONparse(text)

\* The page is loaded again over what localStorage holds.
Reload ==
  \E damage \in Damages :
    /\ restored' = << [damage |-> damage,
                       currentSession |-> rehydrate(SessionText(currentSession, damage)),
                       sessions |-> loadSessions(HistoryText(stored, damage)).value,
                       threw |-> loadSessions(HistoryText(stored, damage)).threw] >>
    /\ UNCHANGED <<currentSession, isLoading, error, now, activeTab, currentResponse,
                   advanceTimers, currentTime, sessions, stored, last, replaced>>
    /\ UNCHANGED bankVars
    /\ UNCHANGED effectVars

\* The store, persisted at every change, and reloads of the page.
ReloadNext ==
  \/ StartNewSession \/ PauseSession \/ CompleteSession \/ AddResponse
  \/ NextQuestion \/ TimePasses \/ Reload

ReloadSpec == Init /\ [][ReloadNext]_vars

\* SessionHistory mounted over a store that any caller drives: each call of a
\* store action is followed by the effects of the mounted component.
HistoryInit ==
  /\ currentSession = NoSession
  /\ isLoading = FALSE
  /\ error = <<>>
  /\ now = 0
  /\ activeTab = "history"
  /\ currentResponse = ""
  /\ advanceTimers = 0
  /\ currentTime = 0
  /\ sessions = <<>>
  /\ stored = <<>>
  /\ last = <<>>
  /\ replaced = FALSE
  /\ restored = <<>>
  /\ BankIdle
  /\ EffectIdle

HistoryStartNewSession ==
  \E questions \in QuestionLists \ {<<>>} :
    /\ Cardinality(SessionIds(World) \cup {FreshId(SessionIds(World))}) <= MaxSessions
    /\ Event("startNewSession",
             [World EXCEPT !.cs = startNewSession(questions,
                                                  FreshId(SessionIds(World)), now)])
    /\ isLoading' = FALSE
    /\ error' = <<>>

HistoryCompleteSession ==
  /\ Event("completeSession",
           [World EXCEPT !.cs = completeSession(@, now), !.completes = 1])
  /\ UNCHANGED <<isLoading, error>>

HistoryPauseSession ==
  /\ Event("pauseSession", [World EXCEPT !.cs = pauseSession(@)])
  /\ UNCHANGED <<isLoading, error>>

HistoryNextQuestion ==
  /\ Event("nextQuestion", [World EXCEPT !.cs = nextQuestion(@)])
  /\ UNCHANGED <<isLoading, error>>

HistoryClearSession ==
  /\ Event("clearSession", [World EXCEPT !.cs = clearSession(@)])
  /\ isLoading' = FALSE
  /\ error' = <<>>

HistoryNext ==
  \/ HistoryStartNewSession \/ HistoryCompleteSession \/ HistoryNextQuestion
  \/ HistoryPauseSession \/ HistoryClearSession \/ HandleDeleteSession \/ Tick

HistorySpec == HistoryInit /\ [][HistoryNext]_vars

\* SessionHistory mounted over the store, its save effect taken run by run.
\* The effect depends on [currentSession, sessions]: it is due after the mount
\* and whenever a dependency is not the one of its last run.
EffectInit == HistoryInit

EffectDue == effectDeps # << [cs |-> currentSession, ref |-> sessionsRef] >>

\* One run of the effect.  For a completed session it calls setSessions with
\* an array it has just built ([...sessions] or [currentSession, ...sessions])
\* and writes that array to localStorage.
RunSaveEffect ==
  /\ EffectDue
  /\ effectDeps' = << [cs |-> currentSession, ref |-> sessionsRef] >>
  /\ \E w \in {saveToHistoryEffect(World)} :
       /\ sessions' = w.sessions
       /\ stored' = w.stored
       /\ replaced' = w.replaced
  /\ sessionsRef' = IF StatusOf(currentSession) = "completed"
                    THEN 1 - sessionsRef ELSE sessionsRef
  /\ UNCHANGED <<currentSession, isLoading, error, now, activeTab, currentResponse,
                 advanceTimers, currentTime, last, restored>>
  /\ UNCHANGED bankVars

\* The Delete item of a listed session: setSessions with the filtered array.
DeleteEntry ==
  \E i \in 1..Len(sessions) :
    \E w \in {handleDeleteSession(World, sessions[i].id)} :
      /\ sessions' = w.sessions
      /\ stored' = w.stored
      /\ sessionsRef' = 1 - sessionsRef
      /\ UNCHANGED <<currentSession, isLoading, error, now, activeTab,
                     currentResponse, advanceTimers, currentTime, last, replaced,
                     restored, effectDeps>>
      /\ UNCHANGED bankVars

EffectStartNewSession ==
  \E questions \in QuestionLists \ {<<>>} :
    /\ Cardinality(SessionIds(World) \cup {FreshId(SessionIds(World))}) <= MaxSessions
    /\ StartNewSessionWith(questions)

EffectNext ==
  \/ EffectStartNewSession \/ PauseSession \/ CompleteSession \/ NextQuestion
  \/ DeleteEntry \/ RunSaveEffect

\* React runs an effect that is due.
EffectSpec == EffectInit /\ [][EffectNext]_vars /\ WF_vars(RunSaveEffect)

\* ------------------------------------------- calls of the question bank
\* The store and the session views before anything happened.
PageIdle ==
  /\ currentSession = NoSession
  /\ isLoading = FALSE
  /\ error = <<>>
  /\ now = 0
  /\ activeTab = "setup"
  /\ currentResponse = ""
  /\ advanceTimers = 0
  /\ currentTime = 0
  /\ sessions = <<>>
  /\ stored = <<>>
  /\ last = <<>>
  /\ replaced = FALSE
  /\ restored = <<>>
  /\ EffectIdle

pageVars == <<currentSession, isLoading, error, now, activeTab, currentResponse,
              advanceTimers, currentTime, sessions, stored, last, replaced, restored,
              sessionsRef, effectDeps>>

\* A caller holding any catalog and any filter calls filterQuestions.
FilterInit ==
  /\ PageIdle
  /\ catalog \in Catalogs
  /\ filters \in QuestionFilters
  /\ config = DefaultConfig
  /\ returned = <<>>
  /\ toast = <<>>

FilterQuestions ==
  \E call \in {filterQuestions(catalog, filters)} :
    /\ returned' = << [fn |-> "filterQuestions", config |-> config,
                       filtered |-> TRUE, order |-> call.result,
                       result |-> call.result] >>
    /\ catalog' = call.questions
    /\ UNCHANGED <<filters, config, toast>>
    /\ UNCHANGED pageVars

FilterNext == FilterQuestions

FilterSpec == FilterInit /\ [][FilterNext]_vars

\* A caller holding any candidates calls selectQuestions with any
\* questionCount, with and without randomize, with and without filters in
\* the configuration.
SelectFilters ==
  { NoFilters,
    [NoFilters EXCEPT !.categories = << <<"behavioral">> >>],
    [NoFilters EXCEPT !.maxTime = << 5 >>, !.includeContextRequired = << FALSE >>] }

Counts == 0..(MaxCatalog + 1)

SelectInit ==
  /\ PageIdle
  /\ catalog \in Catalogs
  /\ filters \in SelectFilters
  /\ config = DefaultConfig
  /\ returned = <<>>
  /\ toast = <<>>

SelectQuestionsWith(questionCount, randomize, filtered) ==
  \E random \in Randoms(Len(catalog)) :
    \E call \in {selectQuestions(catalog,
                                  [questionCount |-> questionCount,
                                   randomize |-> randomize,
                                   filters |-> IF filtered THEN << filters >> ELSE <<>>],
                                  random)} :
      /\ returned' = << [fn |-> "selectQuestions",
                         config |-> [questionCount |-> questionCount,
                                     randomize |-> randomize],
                         filtered |-> filtered, order |-> call.order,
                         result |-> call.result] >>
      /\ catalog' = call.questions
      /\ UNCHANGED <<filters, config, toast>>
      /\ UNCHANGED pageVars

SelectQuestions ==
  \E questionCount \in Counts, randomize \in BOOLEAN, filtered \in BOOLEAN :
    SelectQuestionsWith(questionCount, randomize, filtered)

SelectNext == SelectQuestions \/ FilterQuestions

SelectSpec == SelectInit /\ [][SelectNext]_vars

\* ------------------------------------------------------ QuestionSelector
\* String.prototype.trim.
RECURSIVE trim(_)
trim(str) ==
  IF str = <<>> THEN str
  ELSE IF Head(str) = Space THEN trim(Tail(str))
  ELSE IF str[Len(str)] = Space THEN trim(SubSeq(str, 1, Len(str) - 1))
  ELSE str

\* currentFilters as the component starts: no categories, difficulties or
\* search text, maxTime 20, context-requiring questions included.
InitialFilters ==
  [NoFilters EXCEPT !.maxTime = << 20 >>, !.includeContextRequired = << TRUE >>]

\* The toasts of handleCreateSession.
NoneMatch == "No questions match your criteria"
TooFew == "Only n questions available"
Created == "Interview session created"

\* handleCreateSession that goes on with fewer questions than asked for.
handleCreateSession_NoCountCheck(availableQuestions, cfg, f, random) ==
  IF Len(availableQuestions) = 0
  THEN [toast |-> << NoneMatch >>, selectedQuestions |-> <<>>]
  ELSE [toast |-> << Created >>,
        selectedQuestions |->
          << selectQuestions(availableQuestions,
                             [questionCount |-> cfg.questionCount,
                              randomize |-> cfg.randomize, filters |-> << f >>],
                             random).result >>]

\* handleCreateSession up to the call of startNewSession: the toast it shows
\* and <<selectedQuestions>>, or <<>> when it returns before selecting.
handleCreateSession(availableQuestions, cfg, f, random) ==
  IF Len(availableQuestions) = 0
  THEN [toast |-> << NoneMatch >>, selectedQuestions |-> <<>>]
  ELSE IF Len(availableQuestions) < cfg.questionCount
  THEN [toast |-> << TooFew >>, selectedQuestions |-> <<>>]
  ELSE [toast |-> << Created >>,
        selectedQuestions |->
          << selectQuestions(availableQuestions,
                             [questionCount |-> cfg.questionCount,
                              randomize |-> cfg.randomize, filters |-> << f >>],
                             random).result >>]

\* availableQuestions: the memo over QUESTION_BANK and currentFilters.
AvailableQuestions == filterQuestions(catalog, filters).result

\* The identifiers of the questions of a list, as a session holds them.
IdsOf(list) == [i \in 1..Len(list) |-> list[i].id]

\* QuestionSelector mounted over the store, with any question bank.
SelectorInit ==
  /\ PageIdle
  /\ catalog \in Catalogs
  /\ filters = InitialFilters
  /\ config = DefaultConfig
  /\ returned = <<>>
  /\ toast = <<>>

\* A change of the component's state: no toast, the store left alone.
Selects ==
  /\ toast' = <<>>
  /\ UNCHANGED <<catalog, returned>>
  /\ UNCHANGED pageVars

SetSelectedCategories ==
  \E selectedCategories \in {<<>>, <<"behavioral">>} :
    /\ filters' = [filters EXCEPT !.categories =
                     IF Len(selectedCategories) > 0 THEN << selectedCategories >>
                     ELSE <<>>]
    /\ UNCHANGED config
    /\ Selects

SetSelectedDifficulties ==
  \E selectedDifficulties \in {<<>>, <<"expert">>} :
    /\ filters' = [filters EXCEPT !.difficulties =
                     IF Len(selectedDifficulties) > 0 THEN << selectedDifficulties >>
                     ELSE <<>>]
    /\ UNCHANGED config
    /\ Selects

SetSearchText ==
  \E searchText \in {<<>>, Str(" "), Str("A")} :
    /\ filters' = [filters EXCEPT !.searchText =
                     IF trim(searchText) # <<>> THEN << trim(searchText) >> ELSE <<>>]
    /\ UNCHANGED config
    /\ Selects

\* The slider runs over 5..30.
SetMaxTime ==
  \E value \in {5, 20} :
    /\ filters' = [filters EXCEPT !.maxTime = << value >>]
    /\ UNCHANGED config
    /\ Selects

SetIncludeContextRequired ==
  \E checked \in BOOLEAN :
    /\ filters' = [filters EXCEPT !.includeContextRequired = << checked >>]
    /\ UNCHANGED config
    /\ Selects

\* The slider runs over 1..Math.min(20, availableQuestions.length).
SetQuestionCount ==
  \E value \in 1..(IF Len(AvailableQuestions) < 20 THEN Len(AvailableQuestions)
                    ELSE 20) :
    /\ config' = [config EXCEPT !.questionCount = value]
    /\ UNCHANGED filters
    /\ Selects

SetRandomize ==
  \E checked \in BOOLEAN :
    /\ config' = [config EXCEPT !.randomize = checked]
    /\ UNCHANGED filters
    /\ Selects

HandleResetFilters ==
  /\ filters' = InitialFilters
  /\ config' = DefaultConfig
  /\ Selects

\* handleCreateSession, whatever the state of the component is.
CreateSession ==
  \E random \in Randoms(Len(AvailableQuestions)) :
    \E done \in {handleCreateSession(AvailableQuestions, config, filters, random)} :
      /\ toast' = done.toast
      /\ IF done.selectedQuestions # <<>>
         THEN /\ currentSession' = startNewSession(IdsOf(done.selectedQuestions[1]),
                                                   FreshId(SessionIds(World)), now)
              /\ isLoading' = FALSE
              /\ error' = <<>>
              /\ UNCHANGED <<now, activeTab, currentResponse, advanceTimers,
                             currentTime, sessions, stored, last, replaced, restored>>
              /\ UNCHANGED effectVars
         ELSE UNCHANGED pageVars
      /\ UNCHANGED <<catalog, filters, config, returned>>

SelectorNext ==
  \/ SetSelectedCategories \/ SetSelectedDifficulties \/ SetSearchText
  \/ SetMaxTime \/ SetIncludeContextRequired \/ SetQuestionCount
  \/ SetRandomize \/ HandleResetFilters \/ CreateSession

SelectorSpec == SelectorInit /\ [][SelectorNext]_vars

\* ------------------------------------------------- completion percentage
\* A JavaScript number as far as these views compute with it: NaN, Infinity,
\* or the finite value num / den in lowest terms (the rounding of binary
\* floating point is left out).
RECURSIVE GCD(_, _)
GCD(a, b) == IF b = 0 THEN a ELSE GCD(b, a % b)

NaN == [kind |-> "NaN", num |-> 0, den |-> 1]
Infinity == [kind |-> "Infinity", num |-> 0, den |-> 1]
Finite(n, d) == [kind |-> "finite", num |-> n \div GCD(n, d), den |-> d \div GCD(n, d)]

\* a / b for array lengths a and b: 0 / 0 is NaN, a / 0 is Infinity.
Divide(a, b) == IF b # 0 THEN Finite(a, b) ELSE IF a = 0 THEN NaN ELSE Infinity

Times(x, k) == IF x.kind = "finite" THEN Finite(x.num * k, x.den) ELSE x

\* Math.round: the nearest integer, halves upwards; NaN and Infinity stay.
MathRound(x) ==
  IF x.kind = "finite" THEN Finite((2 * x.num + x.den) \div (2 * x.den), 1) ELSE x

\* SessionProgress: the value handed to the progress bar.
completionPercentage(session) ==
  Times(Divide(Len(session.responses), Len(session.questions)), 100)

\* SessionHistory: the "% complete" figure of an entry.
getCompletionRate(session) ==
  MathRound(Times(Divide(Len(session.responses), Len(session.questions)), 100))

\* ---------------------------------------------------------------- claims
HasSession == currentSession # NoSession
Cur == currentSession[1]
SameSession == HasSession /\ currentSession' # NoSession /\ currentSession'[1].id = Cur.id

\* C1: the active session holds at most one Response per questionId (a second
\* addResponse for a question replaces the first).
C1_OneResponsePerQuestion ==
  HasSession =>
    \A i, j \in 1..Len(Cur.responses) :
      i # j => Cur.responses[i].questionId # Cur.responses[j].questionId

\* C2: an event that calls completeSession on a session (with questions) that
\* is already completed changes nothing of the session; endTime keeps its value.
C2_CompleteIdempotent ==
  [][(HasSession /\ Len(Cur.questions) > 0
      /\ last' # <<>> /\ last'[1].from = "completed")
       => currentSession' = currentSession]_vars

\* C3: once a session (with questions) is completed its responses never change.
C3_CompletedResponsesFrozen ==
  [][(SameSession /\ Len(Cur.questions) > 0 /\ Cur.status = "completed")
       => currentSession'[1].responses = Cur.responses]_vars

\* C4: the status of one session moves only in-progress -> paused,
\* paused -> in-progress, in-progress -> completed, paused -> completed; no
\* session is not-started; nothing leaves completed.
StatusMoves ==
  {<<"in-progress", "paused">>, <<"paused", "in-progress">>,
   <<"in-progress", "completed">>, <<"paused", "completed">>}
C4_StatusTransitions ==
  /\ [](HasSession => Cur.status \in {"in-progress", "paused", "completed"})
  /\ [][SameSession => \/ currentSession'[1].status = Cur.status
                       \/ <<Cur.status, currentSession'[1].status>> \in StatusMoves]_vars
\* completed was reached from paused
C4_Witness ==
  HasSession /\ Cur.status = "completed" /\ last # <<>> /\ last[1].from = "paused"

\* C5: endTime is set if and only if status is completed.
C5_EndTimeIffCompleted ==
  HasSession => (Cur.endTime # {} <=> Cur.status = "completed")
C5_Witness ==
  HasSession /\ Cur.status = "completed" /\ Cur.endTime = {now} /\ now > Cur.startTime

\* C6: for a session with a non-empty question list,
\* 0 <= currentQuestionIndex < questions.length.
C6_IndexInRange ==
  (HasSession /\ Len(Cur.questions) > 0)
    => (0 <= Cur.currentQuestionIndex /\ Cur.currentQuestionIndex < Len(Cur.questions))
C6_Witness ==
  HasSession /\ Len(Cur.questions) > 1
  /\ Cur.currentQuestionIndex = Len(Cur.questions) - 1 /\ Cur.responses # <<>>

\* C7: no session with an empty question list is in-progress.
C7_InProgressHasQuestions ==
  (HasSession /\ Cur.status = "in-progress") => Len(Cur.questions) >= 1

\* C8: the timer's auto-completion invokes completeSession one time.
C8_AutoCompleteOnce ==
  (last # <<>> /\ last[1].auto) => last[1].calls = 1

\* C9: a session that is not completed when its elapsed seconds reach
\* maxDuration under a ticking timer is eventually completed, in-progress or
\* paused alike.
TimerMounted == InView
C9_TimeLimitCompletes ==
  [](( TimerMounted /\ Cur.status # "completed"
       /\ now - Cur.startTime >= MaxDuration)
     => <>(HasSession /\ Cur.status = "completed" /\ Cur.endTime # {}))

\* C10: the history never holds two entries with one session identifier, and
\* while SessionHistory shows a completed session its entry holds the session's
\* latest data.
NoTwoEntries(list) ==
  \A i, j \in 1..Len(list) : i # j => list[i].id # list[j].id
C10_HistoryUpsert ==
  /\ NoTwoEntries(stored) /\ NoTwoEntries(sessions)
  /\ (activeTab = "history" /\ HasSession /\ Cur.status = "completed")
       => (\E i \in 1..Len(stored) : stored[i] = Cur) /\ sessions = stored
\* the effect has replaced the entry of the completed session by later data
C10_Witness ==
  /\ activeTab = "history" /\ HasSession /\ Cur.status = "completed"
  /\ replaced /\ stored = <<Cur>>

\* C11: deleting a history entry by identifier leaves, once the effects have
\* settled, the previous list without the entry of that identifier, in memory
\* and under the persisted key, also when the entry is the completed session
\* that is still the active session.
C11_DeleteRemoves ==
  [][\A i \in 1..Len(sessions) :
       HandleDeleteSessionOf(sessions[i].id)
         => /\ stored' = filterOut(stored, sessions[i].id)
            /\ sessions' = filterOut(sessions, sessions[i].id)]_vars

\* C12: once a completed session is recorded, its archived entry is changed by
\* no later change of the active session, and deleting an entry leaves the
\* active session as it is.
C12_ArchiveIndependent ==
  [][/\ \A i \in 1..Len(stored) : \A j \in 1..Len(stored') :
          stored[i].id = stored'[j].id => stored'[j] = stored[i]
     /\ \A i \in 1..Len(sessions) :
          HandleDeleteSessionOf(sessions[i].id) => currentSession' = currentSession]_vars

\* C13: every entry of the history list is a completed session with endTime
\* set; a session that was replaced or discarded before it completed is not in
\* the list.
Completed(s) == s.status = "completed" /\ s.endTime # {}
C13_OnlyCompletedArchived ==
  /\ \A i \in 1..Len(stored) : Completed(stored[i])
  /\ \A i \in 1..Len(sessions) : Completed(sessions[i])
\* the history has an entry while the active session, not completed, has none
C13_Witness ==
  /\ stored # <<>> /\ HasSession /\ Cur.status = "in-progress"
  /\ \A i \in 1..Len(stored) : stored[i].id # Cur.id

\* C14: a session that has reached status completed is, once the effects of
\* the completing event have run, in the persisted history list with its
\* identifier, its responses and its endTime.
Archived(s) ==
  \E i \in 1..Len(stored) :
    /\ stored[i].id = s.id
    /\ stored[i].responses = s.responses
    /\ stored[i].endTime = s.endTime
C14_CompletedIsArchived ==
  (HasSession /\ Cur.status = "completed") => Archived(Cur)
\* the event that completed the session has also archived it, responses included
C14_Witness ==
  /\ HasSession /\ Cur.status = "completed" /\ last # <<>>
  /\ Cur.responses # <<>> /\ Archived(Cur)

\* C15: the session restored from storage equals the session that was
\* persisted: startTime, endTime and the response timestamps are Date values
\* of the same instants; currentQuestionIndex, status, responses are kept.
C15_RoundTrip ==
  (/\ restored # <<>> /\ restored[1].damage = "none"
   /\ HasSession => Len(Cur.questions) > 0)
    => restored[1].currentSession = [i \in 1..Len(currentSession) |->
                                       InMemory(currentSession[i])]

\* C16: restoring from malformed persisted data never throws, and gives the
\* empty state: no active session when the active-session key is malformed, an
\* empty history when the history key is.
C16_MalformedGivesEmpty ==
  (/\ restored # <<>> /\ restored[1].damage # "none"
   /\ HasSession => Len(Cur.questions) > 0)
    => /\ ~restored[1].threw
       /\ restored[1].damage \in {"sessionText", "sessionFields"}
            => restored[1].currentSession = NoSession
       /\ restored[1].damage \in {"historyText", "historyFields"}
            => restored[1].sessions = <<>>

\* C17: for every non-empty question list and every prior state of the store,
\* startNewSession leaves a session with a fresh identifier, status
\* in-progress, currentQuestionIndex 0, no responses, startTime set, endTime
\* unset and the given questions, in place of the previous session.
C17_StartNewSession ==
  [][\A questions \in QuestionLists \ {<<>>} :
       StartNewSessionWith(questions)
         => /\ currentSession' # NoSession
            /\ HasSession => currentSession'[1].id # Cur.id
            /\ currentSession'[1].status = "in-progress"
            /\ currentSession'[1].currentQuestionIndex = 0
            /\ currentSession'[1].responses = <<>>
            /\ currentSession'[1].startTime = now
            /\ currentSession'[1].endTime = {}
            /\ currentSession'[1].questions = questions]_vars
\* a session just started in place of an earlier one
C17_Witness ==
  /\ HasSession /\ Cur.id = 2 /\ Cur.startTime = now /\ now > 0
  /\ Cur.status = "in-progress" /\ Cur.responses = <<>>
  /\ Len(Cur.questions) = MaxQuestions

\* C18: pauseSession changes the state only when the status is in-progress,
\* and then only the status, to paused; resumeSession only when it is paused,
\* and then only the status, to in-progress; otherwise each changes nothing.
C18_PauseResume ==
  [][/\ PauseSession =>
          /\ currentSession' =
               IF HasSession /\ Cur.status = "in-progress"
               THEN << [Cur EXCEPT !.status = "paused"] >> ELSE currentSession
          /\ UNCHANGED <<isLoading, error>>
     /\ ResumeSession =>
          /\ currentSession' =
               IF HasSession /\ Cur.status = "paused"
               THEN << [Cur EXCEPT !.status = "in-progress"] >> ELSE currentSession
          /\ UNCHANGED <<isLoading, error>>]_vars
\* a session that has been answered, advanced and then paused
C18_Witness ==
  /\ HasSession /\ Cur.status = "paused"
  /\ Cur.responses # <<>> /\ Cur.currentQuestionIndex > 0

\* C19: nextQuestion, previousQuestion and setCurrentQuestion(i) set
\* currentQuestionIndex to their target (index + 1, index - 1, i) exactly when
\* the target is in 0..questions.length - 1, and otherwise leave the session
\* as it is.
MovedTo(target) ==
  IF HasSession /\ 0 <= target /\ target < Len(Cur.questions)
  THEN << [Cur EXCEPT !.currentQuestionIndex = target] >>
  ELSE currentSession
C19_Navigation ==
  [][/\ NextQuestion =>
          (HasSession => currentSession' = MovedTo(Cur.currentQuestionIndex + 1))
     /\ PreviousQuestion =>
          (HasSession => currentSession' = MovedTo(Cur.currentQuestionIndex - 1))
     /\ \A index \in Indexes :
          SetCurrentQuestionTo(index) => currentSession' = MovedTo(index)]_vars
\* a paused session brought to its last question
C19_Witness ==
  /\ HasSession /\ Cur.status = "paused" /\ Len(Cur.questions) = MaxQuestions
  /\ Cur.currentQuestionIndex = MaxQuestions - 1

\* C20: with no active session, each of pauseSession, resumeSession,
\* completeSession, addResponse, nextQuestion, previousQuestion and
\* setCurrentQuestion leaves the store as it is: currentSession stays absent,
\* isLoading and error keep their values (no error is reported).
C20_NoSessionNoOp ==
  [][(/\ currentSession = NoSession
      /\ \/ PauseSession \/ ResumeSession \/ CompleteSession \/ AddResponse
         \/ NextQuestion \/ PreviousQuestion \/ SetCurrentQuestion)
       => UNCHANGED <<currentSession, isLoading, error>>]_vars
\* no session, while the store holds a loading flag and an error message
C20_Witness == currentSession = NoSession /\ isLoading /\ error # <<>>

\* C21: clearSession leaves no active session whatever the prior state was
\* (no session, in-progress, paused or completed), and does not change the
\* history list.
C21_ClearSession ==
  [][HistoryClearSession
       => /\ currentSession' = NoSession
          /\ UNCHANGED <<sessions, stored>>]_vars
\* the session is gone while its entry is still in the history
C21_Witness == currentSession = NoSession /\ stored # <<>> /\ sessions = stored

\* C22: the completion percentage of a session is
\* responses.length / questions.length * 100 when the session has questions
\* and 0 when it has none, in the progress view of the active session and
\* (rounded to an integer) in the completion rate of a history entry.
Percentage(session) ==
  IF Len(session.questions) > 0
  THEN Finite(100 * Len(session.responses), Len(session.questions))
  ELSE Finite(0, 1)
C22_CompletionPercentage ==
  /\ HasSession => completionPercentage(Cur) = Percentage(Cur)
  /\ \A i \in 1..Len(sessions) :
       getCompletionRate(sessions[i]) = MathRound(Percentage(sessions[i]))

\* C23: a question of the catalog is in filterQuestions(catalog, filters) if
\* and only if it satisfies every criterion present in the filter: category
\* membership, difficulty membership, time limit, text search, non-empty tag
\* intersection, context-required exclusion.
Called(fn) == returned # <<>> /\ returned[1].fn = fn
InResult(q) == \E i \in 1..Len(returned[1].result) : returned[1].result[i] = q
MeetsCategory(f, q) ==
  (f.categories # <<>> /\ f.categories[1] # <<>>) => has(f.categories[1], q.category)
MeetsDifficulty(f, q) ==
  (f.difficulties # <<>> /\ f.difficulties[1] # <<>>)
    => has(f.difficulties[1], q.difficulty)
MeetsTime(f, q) ==
  (f.maxTime # <<>> /\ q.estimatedTime # <<>>) => q.estimatedTime[1] <= f.maxTime[1]
\* case-insensitive substring match over prompt + context + tags
MeetsSearch(f, q) ==
  f.searchText # <<>> =>
    LET text == q.question \o << Space >> \o orEmpty(q.context) \o << Space >>
                \o (IF q.tags = <<>> THEN <<>> ELSE join(q.tags[1]))
        term == f.searchText[1]
    IN  \E at \in 0..(Len(text) - Len(term)) :
          \A k \in 1..Len(term) :
            toLowerCase(Str(text[at + k])) = toLowerCase(Str(term[k]))
MeetsTags(f, q) ==
  (f.tags # <<>> /\ f.tags[1] # <<>>) =>
    /\ q.tags # <<>>
    /\ \E i \in 1..Len(f.tags[1]), j \in 1..Len(q.tags[1]) : f.tags[1][i] = q.tags[1][j]
MeetsContext(f, q) ==
  f.includeContextRequired = << FALSE >> => q.requiresContext \notin {<< TRUE >>}
MeetsAll(f, q) ==
  /\ MeetsCategory(f, q) /\ MeetsDifficulty(f, q) /\ MeetsTime(f, q)
  /\ MeetsSearch(f, q) /\ MeetsTags(f, q) /\ MeetsContext(f, q)
C23_FilterIff ==
  Called("filterQuestions") =>
    \A i \in 1..Len(catalog) : InResult(catalog[i]) <=> MeetsAll(filters, catalog[i])

\* C24: the time criterion excludes a question exactly when the filter's
\* maxTime is present, the question's estimatedTime is present and
\* estimatedTime > maxTime, the value 0 counting as present: among the
\* questions that meet the other criteria, those left out are the ones over
\* the limit.
OverTime(f, q) ==
  f.maxTime # <<>> /\ q.estimatedTime # <<>> /\ q.estimatedTime[1] > f.maxTime[1]
MeetsOthers(f, q) ==
  /\ MeetsCategory(f, q) /\ MeetsDifficulty(f, q)
  /\ MeetsSearch(f, q) /\ MeetsTags(f, q) /\ MeetsContext(f, q)
C24_TimeCriterion ==
  Called("filterQuestions") =>
    \A i \in 1..Len(catalog) :
      MeetsOthers(filters, catalog[i])
        => (~InResult(catalog[i]) <=> OverTime(filters, catalog[i]))

\* C25: filterQuestions is deterministic and order-preserving: its result is
\* a subsequence of the catalog (each passing question once, in catalog
\* order), and a second call with the same catalog and filter returns the
\* same sequence.
IsSubsequence(r, c) ==
  \E at \in [1..Len(r) -> 1..Len(c)] :
    /\ \A k \in 1..Len(r) : r[k] = c[at[k]]
    /\ \A k, l \in 1..Len(r) : k < l => at[k] < at[l]
C25_FilterOrder ==
  Called("filterQuestions") =>
    /\ IsSubsequence(returned[1].result, catalog)
    /\ \A i \in 1..Len(catalog) :
         keeps(filters, catalog[i]) =>
           Cardinality({k \in 1..Len(returned[1].result) :
                          returned[1].result[k] = catalog[i]}) = 1
    /\ filterQuestions(catalog, filters).result = returned[1].result
\* a filter that is not the empty one kept several questions
C25_Witness ==
  /\ Called("filterQuestions") /\ Len(returned[1].result) >= 2
  /\ filters.categories # <<>> /\ filters.searchText # <<>>

C27_SelectCount ==
  Called("selectQuestions") =>
    Len(returned[1].result) =
      (IF returned[1].config.questionCount < Len(catalog)
       THEN returned[1].config.questionCount ELSE Len(catalog))

\* C28: with randomize set, the order selectQuestions uses before truncation
\* is a permutation of the candidates (the same questions, each once), and
\* every permutation of the candidates is a possible outcome of the shuffle.
IsPermutation(a, b) ==
  /\ Len(a) = Len(b)
  /\ \E p \in [1..Len(a) -> 1..Len(a)] :
       /\ \A k, l \in 1..Len(a) : k # l => p[k] # p[l]
       /\ \A k \in 1..Len(a) : a[k] = b[p[k]]
Rearrangements(b) ==
  { a \in [1..Len(b) -> {b[i] : i \in 1..Len(b)}] : IsPermutation(a, b) }
\* the orders a call like the last one can come to
Orders ==
  { selectQuestions(catalog,
                    [questionCount |-> returned[1].config.questionCount,
                     randomize |-> returned[1].config.randomize,
                     filters |-> IF returned[1].filtered THEN << filters >> ELSE <<>>],
                    random).order : random \in Randoms(Len(catalog)) }
Passing ==
  IF returned[1].filtered THEN filterQuestions(catalog, filters).result ELSE catalog
C29_InputsUnchanged == [][catalog' = catalog]_vars
\* a shuffled selection that differs from the candidates it was made from
C29_Witness ==
  /\ Called("selectQuestions") /\ returned[1].config.randomize
  /\ ~returned[1].filtered /\ Len(catalog) >= 2
  /\ returned[1].order # catalog /\ IsPermutation(returned[1].order, catalog)

\* C30: handleCreateSession starts a session only when at least one question
\* matches the filters and the matches are at least questionCount, and the
\* started session then has exactly questionCount questions; otherwise it
\* shows a validation message and leaves the active session unchanged.
\* (The steps of handleCreateSession are those that show a toast.)
Matches == Cardinality({i \in 1..Len(catalog) : MeetsAll(filters, catalog[i])})
C30_CreateSession ==
  [][toast' # <<>> =>
       IF Matches >= 1 /\ Matches >= config.questionCount
       THEN /\ currentSession' # NoSession
            /\ currentSession' # currentSession
            /\ currentSession'[1].status = "in-progress"
            /\ Len(currentSession'[1].questions) = config.questionCount
            /\ toast' = << Created >>
       ELSE /\ currentSession' = currentSession
            /\ toast' \in {<< NoneMatch >>, << TooFew >>}]_vars
\* a refusal for too few matches while an earlier session is active
C30_Witness ==
  /\ HasSession /\ toast = << TooFew >>
  /\ Matches >= 1 /\ Matches < config.questionCount
  /\ Len(Cur.questions) > Matches

\* C31: for one session (same identifier), startTime and the question list
\* are unchanged by pauseSession, resumeSession, completeSession,
\* addResponse, nextQuestion, previousQuestion and setCurrentQuestion
\* (startNewSession and clearSession are the steps that end the session).
C31_SessionFrame ==
  [][SameSession => /\ currentSession'[1].startTime = Cur.startTime
                    /\ currentSession'[1].questions = Cur.questions]_vars
\* a session completed after its start, with a response and a moved index
C31_Witness ==
  /\ HasSession /\ Cur.status = "completed" /\ Cur.endTime # {Cur.startTime}
  /\ Cur.responses # <<>> /\ Cur.currentQuestionIndex > 0

\* C32: the questionId of every Response of the active session is the
\* identifier of a question in that session's question list.
C32_ResponsesOwnedByQuestions ==
  HasSession =>
    \A i \in 1..Len(Cur.responses) :
      \E k \in 1..Len(Cur.questions) : Cur.questions[k] = Cur.responses[i].questionId
\* the second question of a session has a response
C32_Witness ==
  /\ HasSession /\ Len(Cur.questions) >= 2
  /\ \E i \in 1..Len(Cur.responses) : Cur.responses[i].questionId = Cur.questions[2]

\* C33: the total elapsed seconds the mounted timer shows are now - startTime
\* at every tick, in in-progress and in paused status alike: pauseSession and
\* resumeSession neither freeze nor reset the value.
C33_ElapsedIsWallClock ==
  (InView /\ Cur.status \in {"in-progress", "paused"})
    => sessionElapsed(World) = now - Cur.startTime
\* a second went by over a paused session
C33_Witness ==
  /\ InView /\ Cur.status = "paused" /\ now > Cur.startTime
  /\ sessionElapsed(World) > 0

\* C34: Exit Session on a session that is not completed records the trimmed
\* draft as a Response for the current question when the draft is not blank,
\* and records nothing when it is blank.
C34_ExitSavesDraft ==
  [][(HandleExit /\ Open) =>
       IF hasResponse(World)
       THEN /\ SameSession
            /\ Len(currentSession'[1].responses) = Len(Cur.responses) + 1
            /\ \E i \in 1..Len(currentSession'[1].responses) :
                 /\ currentSession'[1].responses[i].questionId = currentQuestion(World)
                 /\ currentSession'[1].responses[i].content = Trim(currentResponse)
       ELSE currentSession' = currentSession]_vars

\* C35: the nextQuestion() that handleResponseSubmit delays by 500 ms acts only
\* on the state it was scheduled for; in particular, when it fires it never
\* moves the index of a session that has been completed in the meantime.
C35_DelayedAdvanceSparesCompleted ==
  [][(advanceTimers' < advanceTimers /\ HasSession /\ Cur.status = "completed")
       => (SameSession
           /\ currentSession'[1].currentQuestionIndex = Cur.currentQuestionIndex)]_vars

\* C36: a session driven through the session view never holds more responses
\* than questions, so SessionProgress shows a percentage within 0..100 and a
\* remaining count that is not negative.
C36_ResponsesWithinQuestions ==
  HasSession => Len(Cur.responses) <= Len(Cur.questions)

\* C37: the history-recording effect of SessionHistory reaches a fixed point:
\* once the active session is completed the effect runs finitely often and
\* then is not due again until the user acts.
C37_SaveEffectSettles ==
  (HasSession /\ Cur.status = "completed") ~> ~EffectDue

\* the content of the response recorded last for a question, "" when none is
LastContent(responses, questionId) ==
  LET of == {i \in 1..Len(responses) : responses[i].questionId = questionId}
  IN  IF of = {} THEN ""
      ELSE responses[CHOOSE i \in of : \A j \in of : j <= i].content

\* C38: when the session view moves to another question, the text loaded into
\* the response input is the content of the most recently recorded Response
\* for that question, and is empty when the question has no Response.
C38_PrefillLatest ==
  [][(SameSession /\ activeTab' = "session"
      /\ currentSession'[1].currentQuestionIndex # Cur.currentQuestionIndex)
       => currentResponse' = LastContent(currentSession'[1].responses,
                                         currentQuestion(World)')]_vars

\* C39: once the effects that follow Exit Session have run, the setup view is
\* shown: the effect that follows currentSession does not switch the page
\* back to the session view.
C39_ExitShowsSetup ==
  [][(HandleExit /\ HasSession) => activeTab' = "setup"]_vars

====
